---- MODULE Spec2Model ----
(***************************************************************************)
(* Rule-based controller of the bridge traffic light (kural.py): the tick  *)
(* loop of run(), its timer-driven stage machine GREEN -> YELLOW -> ALLRED *)
(* -> GREEN, the early-termination rules, the direction-selection rule and *)
(* the green-duration planner; the geometry resolution and the run-id      *)
(* allocation that precede the loop; and the particle-swarm search of      *)
(* pso.py.                                                                 *)
(***************************************************************************)
EXTENDS Integers, Sequences, FiniteSets, TLC

\* ---------------------------------------------------------------- constants
PH_A_GREEN == 0
PH_A_YELLOW == 1
PH_A_ALLRED == 2
PH_B_GREEN == 3
PH_B_YELLOW == 4
PH_B_ALLRED == 5

YELLOW_SN == 5
ALLRED_SN == 6

D1 == 4
D2 == 8
G1 == 25
G2 == 45
G3 == 90

MIN_GREEN_SN == 42
EMPTY_MIN_SN == 42
SWITCH_DELTA == 15
FAIRNESS_SN == 90
HYSTERESIS == 3
SAMPLE_EVERY == 10

\* ------------------------------------------------------------------- bounds
\* run(begin, end, ...): the first tick and the tick at which the loop stops.
Begin == 0
End == 60
\* End of the short runs explored under every choice of the policy knobs.
EndKnobs == 12
\* End of the long runs with a standing queue in both directions.
EndLong == 104
\* Smallest positive queue sample; the other samples sit on the thresholds.
QBase == 1

\* Queue samples returned by queue_len: empty, and values whose pairwise
\* differences sit on the thresholds HYSTERESIS, D1, D2 and SWITCH_DELTA.
QVals == {0, QBase, QBase + HYSTERESIS, QBase + D2, QBase + SWITCH_DELTA}

\* Samples of a run in which both directions always have a standing queue,
\* on either side of the hysteresis band and of the early-switch threshold.
QStanding == {QBase, QBase + HYSTERESIS, QBase + SWITCH_DELTA}

\* Samples fed to a pair of instances: empty, small and past the
\* early-switch threshold.
QPair == {0, QBase, QBase + SWITCH_DELTA}

\* Largest queue handed to the planner when it is checked on its own.
MaxPlanQ == 10

PlanQ == 0..MaxPlanQ

\* The policy knobs as configured in the source.
Configured ==
    [MIN_GREEN_SN |-> MIN_GREEN_SN, EMPTY_MIN_SN |-> EMPTY_MIN_SN,
     SWITCH_DELTA |-> SWITCH_DELTA, FAIRNESS_SN |-> FAIRNESS_SN,
     HYSTERESIS |-> HYSTERESIS]

\* Other choices of the policy knobs (the tiers and clearance times fixed).
KnobChoices ==
    [MIN_GREEN_SN : {0, MIN_GREEN_SN}, EMPTY_MIN_SN : {0, EMPTY_MIN_SN},
     SWITCH_DELTA : {HYSTERESIS, SWITCH_DELTA}, FAIRNESS_SN : {FAIRNESS_SN},
     HYSTERESIS : {HYSTERESIS}]

\* The configured knobs with the fairness ceiling lowered to the minimum
\* green, so that a GREEN can outlive the ceiling.
KnobsFair == [Configured EXCEPT !.FAIRNESS_SN = MIN_GREEN_SN]

VARIABLES
    knobs,              \* policy knobs of the run (module constants, lines 35-39)
    t,                  \* loop counter
    stage,              \* "GREEN" | "YELLOW" | "ALLRED"
    cur_dir,            \* "A" | "B"
    stage_end,          \* tick at which the current stage ends by timer
    last_green_start,   \* tick of the last green start
    last_switch_like,   \* tick of the last switch request (fairness window)
    phase,              \* last commanded phase index
    g,                  \* last planned green duration
    qA, qB,             \* last queue samples
    rows,               \* log rows written by the last tick
    cmds,               \* set_phase commands issued by the last tick (or startup)
    denied,             \* observer: ticks a direction has waited with a queue
    twin,               \* a second instance of run(), fed the same samples
    nphases,            \* len(logic.getPhases()) of the traffic light program
    stA, stB,           \* state strings of the phases PH_A_GREEN and PH_B_GREEN
    links,              \* getControlledLinks: per link index, its incoming lanes
    geom,               \* outcome of the geometry resolution (lines 156-161)
    dirs,               \* names (after the prefix) of the directories in base_dir
    proc,               \* per concurrent run(): position, mx and rid
    logs,               \* <<directory name, run>>: the run opened karar_log.csv there
    swarm,              \* pso_optimize: the particles
    global_best_pos,    \* pso_optimize: best position so far
    global_best_score,  \* pso_optimize: best score so far
    it, pi, psopc,      \* pso_optimize: iteration, particle index, loop reached
    evals               \* observer: lowest score evaluated so far, and where

\* The locals of run() and the observers of the tick loop.
ctlVars ==
    <<knobs, t, stage, cur_dir, stage_end, last_green_start, last_switch_like,
      phase, g, qA, qB, rows, cmds, denied>>

geoVars == <<nphases, stA, stB, links, geom>>

runVars == <<dirs, proc, logs>>

psoVars == <<swarm, global_best_pos, global_best_score, it, pi, psopc, evals>>

vars == <<ctlVars, twin, geoVars, runVars, psoVars>>

Abs(x) == IF x < 0 THEN -x ELSE x

Max(x, y) == IF x >= y THEN x ELSE y

\* ------------------------------------------------------------ pure functions
\* Faulty variant: the low threshold is tested first, so the longest tier is
\* never returned.
choose_green_lowfirst(diff_abs) ==
    IF diff_abs >= D1 THEN G2
    ELSE IF diff_abs >= D2 THEN G3
    ELSE G1

choose_green_by_diff(diff_abs) ==
    IF diff_abs >= D2 THEN G3
    ELSE IF diff_abs >= D1 THEN G2
    ELSE G1

\* Faulty variant: the zero-queue guards are missing.
pick_next_dir_nozero(a, b, last_dir) ==
    IF Abs(a - b) <= knobs.HYSTERESIS THEN last_dir
    ELSE IF a > b THEN "A" ELSE "B"

\* Faulty variant: no hysteresis, the larger queue always wins (ties to B).
pick_next_dir_nohyst(a, b, last_dir) ==
    IF a = 0 /\ b > 0 THEN "B"
    ELSE IF b = 0 /\ a > 0 THEN "A"
    ELSE IF a > b THEN "A" ELSE "B"

\* Faulty variant: outside the band the comparison is inverted.
pick_next_dir_inverted(a, b, last_dir) ==
    IF a = 0 /\ b > 0 THEN "B"
    ELSE IF b = 0 /\ a > 0 THEN "A"
    ELSE IF Abs(a - b) <= knobs.HYSTERESIS THEN last_dir
    ELSE IF a < b THEN "A" ELSE "B"

pick_next_dir(a, b, last_dir) ==
    IF a = 0 /\ b > 0 THEN "B"
    ELSE IF b = 0 /\ a > 0 THEN "A"
    ELSE IF Abs(a - b) <= knobs.HYSTERESIS THEN last_dir
    ELSE IF a > b THEN "A" ELSE "B"

\* Faulty variant: the tier is looked up by the served queue alone.
green_plan_thisq(dirc, a, b) ==
    LET thisQ == IF dirc = "A" THEN a ELSE b
    IN  Max(knobs.MIN_GREEN_SN, choose_green_by_diff(thisQ))

\* Faulty variant: the floor at the minimum green is missing.
green_plan_nofloor(dirc, a, b) ==
    LET thisQ == IF dirc = "A" THEN a ELSE b
        otherQ == IF dirc = "A" THEN b ELSE a
    IN  choose_green_by_diff(Abs(thisQ - otherQ))

green_plan_for_dir(dirc, a, b) ==
    LET thisQ == IF dirc = "A" THEN a ELSE b
        otherQ == IF dirc = "A" THEN b ELSE a
    IN  Max(knobs.MIN_GREEN_SN, choose_green_by_diff(Abs(thisQ - otherQ)))

GreenPhase(d) == IF d = "A" THEN PH_A_GREEN ELSE PH_B_GREEN

YellowPhase(d) == IF d = "A" THEN PH_A_YELLOW ELSE PH_B_YELLOW

\* Faulty variant: the all-red stage commands the yellow phase index.
AllredPhase_asyellow(d) == IF d = "A" THEN PH_A_YELLOW ELSE PH_B_YELLOW

AllredPhase(d) == IF d = "A" THEN PH_A_ALLRED ELSE PH_B_ALLRED

\* ------------------------------------------------------ geometry resolver
\* Characters of a phase state string: two greens and a non-green.
StateChars == {"G", "g", "r"}

\* Names of the incoming lanes, ordered as sorted() orders them.
Lanes == {1, 2}

\* Largest number of controlled links (and of characters of a state string).
MaxLinks == 3

\* if len(phases) < 6: raise
PhasesNeeded == 6

Min(x, y) == IF x <= y THEN x ELSE y

\* a in "Gg", for a single character a
InGg(c) == c = "G" \/ c = "g"

\* sorted(S) of a set of lane names
RECURSIVE Sorted(_)
Sorted(S) ==
    IF S = {} THEN <<>>
    ELSE LET m == CHOOSE x \in S : \A y \in S : x <= y
         IN  <<m>> \o Sorted(S \ {m})

\* The result of a resolution that raised: nothing is returned.
Raised ==
    [status |-> "error", idxA |-> {}, idxB |-> {}, idxCommon |-> {},
     lanesA |-> <<>>, lanesB |-> <<>>, lanesCommon |-> <<>>]

\* Faulty variant: only an empty A-only list is refused.
infer_indices_onlyA(a, b) ==
    LET n == Min(Len(a), Len(b))
        idxA == {i \in 0..(n - 1) : InGg(a[i + 1]) /\ ~InGg(b[i + 1])}
        idxB == {i \in 0..(n - 1) : InGg(b[i + 1]) /\ ~InGg(a[i + 1])}
        idxCommon == {i \in 0..(n - 1) : InGg(a[i + 1]) /\ InGg(b[i + 1])}
    IN  IF idxA = {}
        THEN Raised
        ELSE [Raised EXCEPT !.status = "ok", !.idxA = idxA, !.idxB = idxB,
                            !.idxCommon = idxCommon]

\* infer_indices: the 0-based positions of zip(stA, stB), which stops at the
\* shorter string; each list is kept as the set of its (increasing) indices.
infer_indices(a, b) ==
    LET n == Min(Len(a), Len(b))
        idxA == {i \in 0..(n - 1) : InGg(a[i + 1]) /\ ~InGg(b[i + 1])}
        idxB == {i \in 0..(n - 1) : InGg(b[i + 1]) /\ ~InGg(a[i + 1])}
        idxCommon == {i \in 0..(n - 1) : InGg(a[i + 1]) /\ InGg(b[i + 1])}
    IN  IF idxA = {} \/ idxB = {}
        THEN Raised
        ELSE [Raised EXCEPT !.status = "ok", !.idxA = idxA, !.idxB = idxB,
                            !.idxCommon = idxCommon]

\* sorted({lnk[0] for i in indices for lnk in links[i]})
lanes_from_indices(lk, indices) ==
    Sorted(UNION {{lk[i + 1][j] : j \in 1..Len(lk[i + 1])} : i \in indices})

\* tl_states_and_links: TRUE when it raises.
tl_states_and_links_raises(n, a, lk) == n < PhasesNeeded \/ Len(a) # Len(lk)

\* Lines 156-161 of run(): tl_states_and_links, infer_indices and the three
\* calls of lanes_from_indices.
Resolve(n, a, b, lk) ==
    IF tl_states_and_links_raises(n, a, lk) THEN Raised
    ELSE LET r == infer_indices(a, b)
         IN  IF r.status = "error" THEN Raised
             ELSE [r EXCEPT !.lanesA = lanes_from_indices(lk, r.idxA),
                            !.lanesB = lanes_from_indices(lk, r.idxB),
                            !.lanesCommon = lanes_from_indices(lk, r.idxCommon)]

\* State strings and link lists handed to the resolver.
Strings == UNION {[1..n -> StateChars] : n \in (MaxLinks - 1)..MaxLinks}

LinkLists == UNION {[1..n -> {<<l>> : l \in Lanes}] : n \in (MaxLinks - 1)..MaxLinks}

\* The program of a bridge with one approach lane per direction.
Bridge ==
    /\ nphases = PhasesNeeded
    /\ stA = <<"G", "r">>
    /\ stB = <<"r", "G">>
    /\ links = <<<<1>>, <<2>>>>

\* Its geometry, resolved.
GeoResolved == Bridge /\ geom = Resolve(nphases, stA, stB, links)

\* Its geometry before run() reaches line 156.
GeoPending == Bridge /\ geom = [Raised EXCEPT !.status = "pending"]

\* ------------------------------------------------------------ run ids
\* Number of run() calls started against the same out_base.
NRuns == 2

Procs == 1..NRuns

\* Directory names are given by what follows the prefix "kosu_", as a
\* sequence of characters.
DigitChars == <<"0", "1", "2", "3", "4", "5", "6", "7", "8", "9">>

DigitVal(c) == (CHOOSE k \in 1..10 : DigitChars[k] = c) - 1

\* s.isdigit()
isdigit(s) ==
    Len(s) > 0 /\ \A i \in 1..Len(s) : \E k \in 1..10 : DigitChars[k] = s[i]

\* int(s) of a string of digits
RECURSIVE int(_)
int(s) ==
    IF s = <<>> THEN 0
    ELSE 10 * int(SubSeq(s, 1, Len(s) - 1)) + DigitVal(s[Len(s)])

RECURSIVE Digits(_)
Digits(n) ==
    IF n < 10 THEN <<DigitChars[n + 1]>>
    ELSE Digits(n \div 10) \o <<DigitChars[(n % 10) + 1]>>

\* f"{n:03d}"
Fmt03(n) ==
    LET d == Digits(n)
    IN  IF Len(d) >= 3 THEN d ELSE [i \in 1..(3 - Len(d)) |-> "0"] \o d

\* next_run_id: one more than the largest numbered directory of the listing.
next_run_id(names) ==
    LET nums == {int(s) : s \in {x \in names : isdigit(x)}} \cup {0}
        mx == CHOOSE m \in nums : \A k \in nums : k <= m
    IN  Fmt03(mx + 1)

\* Directories out_base may hold when the runs start.
InitNames == {<<"0", "0", "1">>, <<"2">>, <<"x">>}

\* ------------------------------------------------- particle swarm (pso.py)
\* Positions and velocities are kept on an integer grid; the hyperparameters
\* 0.72 and 1.49 are kept in hundredths.
INERTIA_W == 72

PSO_C1 == 149

PSO_C2 == 149

\* pso_optimize(n_particles, n_iters, gmin, gmax, ...)
NParticles == 2

NIters == 2

Gmin == 0

Gmax == 10

\* Scores returned by evaluate_particle are drawn from 0..MaxScore.
MaxScore == 1

Scores == 0..MaxScore

\* float("inf"): larger than every score.
Infinity == MaxScore + 1

\* Values of random.random() used by one particle's update, in halves (0 is
\* 0.0 and 1 is 0.5), as <<r1, r2>> of dimension A then <<r1, r2>> of
\* dimension B.
Draws == {<<0, 0, 0, 0>>, <<1, 0, 0, 1>>}

\* clamp(x, lo, hi) = max(lo, min(hi, x))
clamp(x, lo, hi) == Max(lo, Min(hi, x))

\* Faulty variant: the global best follows the latest evaluation.
UpdateGlobal_latest(best, pos, score) == [pos |-> pos, score |-> score]

\* if score < global_best_score: global_best_score, global_best_pos = ...
UpdateGlobal(best, pos, score) ==
    IF score < best.score THEN [pos |-> pos, score |-> score] ELSE best

\* Observer: the evaluations counted, the lowest score among them and the
\* positions that scored it.
Seen(ev, pos, score) ==
    [n |-> ev.n + 1,
     low |-> Min(ev.low, score),
     at |-> IF score < ev.low THEN {pos}
            ELSE IF score = ev.low THEN ev.at \cup {pos} ELSE ev.at]

\* if score < p.best_score: p.best_score, p.best_pos = ...
UpdatePersonal(pt, score) ==
    IF score < pt.best_score
    THEN [pt EXCEPT !.best_score = score, !.best_pos = pt.pos]
    ELSE pt

\* One dimension of the velocity and position update (lines 439-450), with
\* r1 and r2 given in halves; the new velocity is rounded down to the grid.
MoveDim(pos, vel, bp, gb, r1, r2) ==
    LET raw == (2 * INERTIA_W * vel + PSO_C1 * r1 * (bp - pos)
                + PSO_C2 * r2 * (gb - pos)) \div 200
        vmax == (Gmax - Gmin) \div 5
        v == clamp(raw, -vmax, vmax)
    IN  [vel |-> v, pos |-> clamp(pos + v, Gmin, Gmax)]

\* --------------------------------------------------------- engine record
\* The locals of run() that the loop body reads and writes.
Engine ==
    [stage |-> stage, cur_dir |-> cur_dir, stage_end |-> stage_end,
     last_green_start |-> last_green_start,
     last_switch_like |-> last_switch_like,
     phase |-> phase, g |-> g, rows |-> <<>>, cmds |-> <<>>]

\* set_phase(ph, dur) followed by phase = ph.
set_phase(s, ph, dur) ==
    [s EXCEPT !.cmds = Append(@, <<ph, dur>>), !.phase = ph]

\* w.writerow([t, phase, cur_dir, qA, qB, bridgeBusy, action, note])
writerow(s, tt, a, b, action, note) ==
    [s EXCEPT !.rows = Append(@, [t |-> tt, phase |-> s.phase, dir |-> s.cur_dir,
                                  qA |-> a, qB |-> b,
                                  action |-> action, note |-> note])]

\* Faulty variant: the stage stays GREEN after the timer's yellow command.
GreenToYellow_nostage(s, tt, a, b) ==
    LET s1 == set_phase(s, YellowPhase(s.cur_dir), YELLOW_SN)
        s2 == [s1 EXCEPT !.stage_end = tt + YELLOW_SN]
    IN  writerow(s2, tt, a, b, "ENTER_YELLOW", "timer")

\* Faulty variant: the timer's yellow is commanded but not logged.
GreenToYellow_norow(s, tt, a, b) ==
    LET s1 == set_phase(s, YellowPhase(s.cur_dir), YELLOW_SN)
    IN  [s1 EXCEPT !.stage = "YELLOW", !.stage_end = tt + YELLOW_SN]

GreenToYellow(s, tt, a, b) ==
    LET s1 == set_phase(s, YellowPhase(s.cur_dir), YELLOW_SN)
        s2 == [s1 EXCEPT !.stage = "YELLOW", !.stage_end = tt + YELLOW_SN]
    IN  writerow(s2, tt, a, b, "ENTER_YELLOW", "timer")

\* Faulty variant: the yellow's timer jumps straight to GREEN.
YellowToAllred_togreen(s, tt, a, b) ==
    LET s1 == set_phase(s, AllredPhase(s.cur_dir), ALLRED_SN)
        s2 == [s1 EXCEPT !.stage = "GREEN", !.stage_end = tt + ALLRED_SN]
    IN  writerow(s2, tt, a, b, "ENTER_ALLRED", "timer")

\* Faulty variant: the yellow's timer re-arms the yellow.
YellowToAllred_stay(s, tt, a, b) ==
    LET s1 == set_phase(s, YellowPhase(s.cur_dir), YELLOW_SN)
        s2 == [s1 EXCEPT !.stage_end = tt + YELLOW_SN]
    IN  writerow(s2, tt, a, b, "ENTER_ALLRED", "timer")

\* Faulty variant: the all-red stage is handed to the other direction.
YellowToAllred_flipdir(s, tt, a, b) ==
    LET s0 == [s EXCEPT !.cur_dir = IF @ = "A" THEN "B" ELSE "A"]
        s1 == set_phase(s0, AllredPhase(s0.cur_dir), ALLRED_SN)
        s2 == [s1 EXCEPT !.stage = "ALLRED", !.stage_end = tt + ALLRED_SN]
    IN  writerow(s2, tt, a, b, "ENTER_ALLRED", "timer")

YellowToAllred(s, tt, a, b) ==
    LET s1 == set_phase(s, AllredPhase(s.cur_dir), ALLRED_SN)
        s2 == [s1 EXCEPT !.stage = "ALLRED", !.stage_end = tt + ALLRED_SN]
    IN  writerow(s2, tt, a, b, "ENTER_ALLRED", "timer")

\* Faulty variant: entering GREEN does not restart the green age.
AllredToGreen_nolgs(s, tt, a, b) ==
    LET next_dir == pick_next_dir(a, b, s.cur_dir)
        gg == green_plan_for_dir(next_dir, a, b)
        s1 == [s EXCEPT !.cur_dir = next_dir, !.g = gg]
        s2 == set_phase(s1, GreenPhase(next_dir), gg)
        s3 == [s2 EXCEPT !.stage = "GREEN",
                         !.last_switch_like = tt, !.stage_end = tt + gg]
    IN  writerow(s3, tt, a, b, "ENTER_GREEN", "g_diff")

\* Faulty variant: entering GREEN does not restart the fairness window.
AllredToGreen_nolsl(s, tt, a, b) ==
    LET next_dir == pick_next_dir(a, b, s.cur_dir)
        gg == green_plan_for_dir(next_dir, a, b)
        s1 == [s EXCEPT !.cur_dir = next_dir, !.g = gg]
        s2 == set_phase(s1, GreenPhase(next_dir), gg)
        s3 == [s2 EXCEPT !.stage = "GREEN", !.last_green_start = tt,
                         !.stage_end = tt + gg]
    IN  writerow(s3, tt, a, b, "ENTER_GREEN", "g_diff")

AllredToGreen(s, tt, a, b) ==
    LET next_dir == pick_next_dir(a, b, s.cur_dir)
        gg == green_plan_for_dir(next_dir, a, b)
        s1 == [s EXCEPT !.cur_dir = next_dir, !.g = gg]
        s2 == set_phase(s1, GreenPhase(next_dir), gg)
        s3 == [s2 EXCEPT !.stage = "GREEN", !.last_green_start = tt,
                         !.last_switch_like = tt, !.stage_end = tt + gg]
    IN  writerow(s3, tt, a, b, "ENTER_GREEN", "g_diff")

\* Faulty variant: the timer fires one tick after the deadline.
TimerTransition_late(s, tt, a, b) ==
    IF tt > s.stage_end
    THEN CASE s.stage = "GREEN" -> GreenToYellow(s, tt, a, b)
           [] s.stage = "YELLOW" -> YellowToAllred(s, tt, a, b)
           [] s.stage = "ALLRED" -> AllredToGreen(s, tt, a, b)
           [] OTHER -> s
    ELSE s

\* if t >= stage_end: ... (the timer-driven stage transitions)
TimerTransition(s, tt, a, b) ==
    IF tt >= s.stage_end
    THEN CASE s.stage = "GREEN" -> GreenToYellow(s, tt, a, b)
           [] s.stage = "YELLOW" -> YellowToAllred(s, tt, a, b)
           [] s.stage = "ALLRED" -> AllredToGreen(s, tt, a, b)
           [] OTHER -> s
    ELSE s

\* Faulty variant: the early yellow is given the all-red duration.
ToYellowEarly_wrongend(s, tt, a, b, note) ==
    LET s1 == set_phase(s, YellowPhase(s.cur_dir), YELLOW_SN)
        s2 == [s1 EXCEPT !.stage = "YELLOW", !.stage_end = tt + ALLRED_SN]
        s3 == writerow(s2, tt, a, b, "EARLY_SWITCH", note)
    IN  [s3 EXCEPT !.last_switch_like = tt]

\* Faulty variant: the early switch changes the stage without commanding
\* the yellow phase.
ToYellowEarly_nocmd(s, tt, a, b, note) ==
    LET s2 == [s EXCEPT !.stage = "YELLOW", !.stage_end = tt + YELLOW_SN,
                        !.phase = YellowPhase(s.cur_dir)]
        s3 == writerow(s2, tt, a, b, "EARLY_SWITCH", note)
    IN  [s3 EXCEPT !.last_switch_like = tt]

\* The body shared by the three early-switch branches.
ToYellowEarly(s, tt, a, b, note) ==
    LET s1 == set_phase(s, YellowPhase(s.cur_dir), YELLOW_SN)
        s2 == [s1 EXCEPT !.stage = "YELLOW", !.stage_end = tt + YELLOW_SN]
        s3 == writerow(s2, tt, a, b, "EARLY_SWITCH", note)
    IN  [s3 EXCEPT !.last_switch_like = tt]

\* Faulty variant: the empty-side release branch is missing.
EarlyRule_noempty(s, tt, a, b) ==
    LET green_age == tt - s.last_green_start
        other_age == tt - s.last_switch_like
        thisQ == IF s.cur_dir = "A" THEN a ELSE b
        otherQ == IF s.cur_dir = "A" THEN b ELSE a
        adv == otherQ - thisQ
    IN  IF green_age >= knobs.MIN_GREEN_SN /\ adv >= knobs.SWITCH_DELTA
        THEN "other_better"
        ELSE IF other_age >= knobs.FAIRNESS_SN /\ otherQ > 0
                /\ green_age >= knobs.MIN_GREEN_SN
        THEN "fairness"
        ELSE "none"

\* Faulty variant: the advantage must exceed the threshold strictly.
EarlyRule_strict(s, tt, a, b) ==
    LET green_age == tt - s.last_green_start
        other_age == tt - s.last_switch_like
        thisQ == IF s.cur_dir = "A" THEN a ELSE b
        otherQ == IF s.cur_dir = "A" THEN b ELSE a
        adv == otherQ - thisQ
    IN  IF thisQ = 0 /\ otherQ > 0 /\ green_age >= knobs.EMPTY_MIN_SN
        THEN "empty"
        ELSE IF green_age >= knobs.MIN_GREEN_SN /\ adv > knobs.SWITCH_DELTA
        THEN "other_better"
        ELSE IF other_age >= knobs.FAIRNESS_SN /\ otherQ > 0
                /\ green_age >= knobs.MIN_GREEN_SN
        THEN "fairness"
        ELSE "none"

\* Faulty variant: the advantage branch does not wait for the minimum green.
EarlyRule_nomin(s, tt, a, b) ==
    LET green_age == tt - s.last_green_start
        other_age == tt - s.last_switch_like
        thisQ == IF s.cur_dir = "A" THEN a ELSE b
        otherQ == IF s.cur_dir = "A" THEN b ELSE a
        adv == otherQ - thisQ
    IN  IF thisQ = 0 /\ otherQ > 0 /\ green_age >= knobs.EMPTY_MIN_SN
        THEN "empty"
        ELSE IF adv >= knobs.SWITCH_DELTA
        THEN "other_better"
        ELSE IF other_age >= knobs.FAIRNESS_SN /\ otherQ > 0
                /\ green_age >= knobs.MIN_GREEN_SN
        THEN "fairness"
        ELSE "none"

\* Faulty variant: the advantage branch is tested before the empty-side one.
EarlyRule_advfirst(s, tt, a, b) ==
    LET green_age == tt - s.last_green_start
        other_age == tt - s.last_switch_like
        thisQ == IF s.cur_dir = "A" THEN a ELSE b
        otherQ == IF s.cur_dir = "A" THEN b ELSE a
        adv == otherQ - thisQ
    IN  IF green_age >= knobs.MIN_GREEN_SN /\ adv >= knobs.SWITCH_DELTA
        THEN "other_better"
        ELSE IF thisQ = 0 /\ otherQ > 0 /\ green_age >= knobs.EMPTY_MIN_SN
        THEN "empty"
        ELSE IF other_age >= knobs.FAIRNESS_SN /\ otherQ > 0
                /\ green_age >= knobs.MIN_GREEN_SN
        THEN "fairness"
        ELSE "none"

\* The if / elif / elif chain of the early-switch block: which branch is taken.
EarlyRule(s, tt, a, b) ==
    LET green_age == tt - s.last_green_start
        other_age == tt - s.last_switch_like
        thisQ == IF s.cur_dir = "A" THEN a ELSE b
        otherQ == IF s.cur_dir = "A" THEN b ELSE a
        adv == otherQ - thisQ
    IN  IF thisQ = 0 /\ otherQ > 0 /\ green_age >= knobs.EMPTY_MIN_SN
        THEN "empty"
        ELSE IF green_age >= knobs.MIN_GREEN_SN /\ adv >= knobs.SWITCH_DELTA
        THEN "other_better"
        ELSE IF other_age >= knobs.FAIRNESS_SN /\ otherQ > 0
                /\ green_age >= knobs.MIN_GREEN_SN
        THEN "fairness"
        ELSE "none"

\* if stage == "GREEN": ... (early switch decisions, after the timer block)
EarlySwitch(s, tt, a, b) ==
    IF s.stage = "GREEN" /\ EarlyRule(s, tt, a, b) # "none"
    THEN ToYellowEarly(s, tt, a, b, EarlyRule(s, tt, a, b))
    ELSE s

\* Faulty variant: the SAMPLE row follows the counter of another instance
\* instead of the instance's own tick.
Sample_otherclock(s, tt, a, b) ==
    IF t % SAMPLE_EVERY = 0 THEN writerow(s, tt, a, b, "SAMPLE", "") ELSE s

\* Faulty variant: the SAMPLE row is skipped when the tick already logged
\* a transition.
Sample_onlyquiet(s, tt, a, b) ==
    IF tt % SAMPLE_EVERY = 0 /\ s.rows = <<>>
    THEN writerow(s, tt, a, b, "SAMPLE", "")
    ELSE s

\* if (t % SAMPLE_EVERY) == 0: w.writerow([... "SAMPLE", ""])
Sample(s, tt, a, b) ==
    IF tt % SAMPLE_EVERY = 0 THEN writerow(s, tt, a, b, "SAMPLE", "") ELSE s

\* One pass of the loop body for samples (a, b) at tick tt.
LoopBody(s, tt, a, b) ==
    Sample(EarlySwitch(TimerTransition(s, tt, a, b), tt, a, b), tt, a, b)

\* Observer: a direction with a queue that is not being served GREEN waits.
Waited(s, d, q) ==
    IF q > 0 /\ ~(s.stage = "GREEN" /\ s.cur_dir = d) THEN denied[d] + 1 ELSE 0

\* ------------------------------------------------------------------- Init
\* Faulty variant: a tie of the first samples goes to B.
Startup_tieB(K, Q) ==
    /\ knobs = K
    /\ qA \in Q
    /\ qB \in Q
    /\ cur_dir = (IF qA > qB THEN "A" ELSE "B")
    /\ stage = "GREEN"
    /\ last_green_start = Begin
    /\ last_switch_like = Begin
    /\ t = Begin
    /\ g = green_plan_for_dir(cur_dir, qA, qB)
    /\ cmds = <<<<GreenPhase(cur_dir), g>>>>
    /\ phase = GreenPhase(cur_dir)
    /\ stage_end = Begin + g
    /\ rows = <<>>
    /\ denied = [d \in {"A", "B"} |-> 0]

\* run() up to the loop: initial samples, initial direction and green.
Startup(K, Q) ==
    /\ knobs = K
    /\ qA \in Q
    /\ qB \in Q
    /\ cur_dir = (IF qA >= qB THEN "A" ELSE "B")
    /\ stage = "GREEN"
    /\ last_green_start = Begin
    /\ last_switch_like = Begin
    /\ t = Begin
    /\ g = green_plan_for_dir(cur_dir, qA, qB)
    /\ cmds = <<<<GreenPhase(cur_dir), g>>>>
    /\ phase = GreenPhase(cur_dir)
    /\ stage_end = Begin + g
    /\ rows = <<>>
    /\ denied = [d \in {"A", "B"} |-> 0]

\* No second instance, no concurrent run and no parameter search.
TwinIdle == twin = <<>>

RunsIdle == dirs = {} /\ proc = <<>> /\ logs = {}

PsoIdle ==
    /\ swarm = <<>>
    /\ global_best_pos = <<>>
    /\ global_best_score = 0
    /\ it = 0
    /\ pi = 0
    /\ psopc = "idle"
    /\ evals = <<>>

\* The tick loop on its own: geometry resolved, nothing else running.
LoopOnly == TwinIdle /\ GeoResolved /\ RunsIdle /\ PsoIdle

\* run() before line 156: its locals are not assigned yet.
NotStarted ==
    /\ knobs = Configured
    /\ t = Begin
    /\ stage = "NONE"
    /\ cur_dir = "NONE"
    /\ stage_end = Begin
    /\ last_green_start = Begin
    /\ last_switch_like = Begin
    /\ phase = PH_A_GREEN
    /\ g = 0
    /\ qA = 0
    /\ qB = 0
    /\ rows = <<>>
    /\ cmds = <<>>
    /\ denied = [d \in {"A", "B"} |-> 0]

Init == Startup(Configured, QVals) /\ LoopOnly

InitKnobs == (\E K \in KnobChoices : Startup(K, QVals)) /\ LoopOnly

InitQueued == Startup(Configured, QStanding) /\ LoopOnly

InitFair == Startup(KnobsFair, QVals) /\ LoopOnly

\* Lines 167-180 of run() for first samples (a, b), as a second instance
\* executes them.
StartEngine(a, b) ==
    LET d == IF a >= b THEN "A" ELSE "B"
        gg == green_plan_for_dir(d, a, b)
    IN  [t |-> Begin, stage |-> "GREEN", cur_dir |-> d, stage_end |-> Begin + gg,
         last_green_start |-> Begin, last_switch_like |-> Begin,
         phase |-> GreenPhase(d), g |-> gg, rows |-> <<>>,
         cmds |-> <<<<GreenPhase(d), gg>>>>]

\* Two instances with the same configuration and start tick, given the same
\* first samples.
InitPair ==
    /\ Startup(Configured, QPair)
    /\ twin = StartEngine(qA, qB)
    /\ GeoResolved /\ RunsIdle /\ PsoIdle

\* pso_optimize after the swarm is initialized (lines 391-401): each particle
\* at one end of [gmin, gmax] in one dimension and at the other end in the
\* other, velocities at the ends of their range (downwards in dimension A,
\* upwards in dimension B).
InitPso ==
    /\ NotStarted
    /\ TwinIdle /\ GeoPending /\ RunsIdle
    /\ swarm \in [1..NParticles ->
                    {[pos |-> <<a, Gmin + Gmax - a>>, vel |-> <<v, -v>>,
                      best_pos |-> <<a, Gmin + Gmax - a>>,
                      best_score |-> Infinity] :
                        a \in {Gmin, Gmax},
                        v \in {-((Gmax - Gmin) \div 10)}}]
    /\ global_best_pos = swarm[1].pos
    /\ global_best_score = Infinity
    /\ it = 0
    /\ pi = 0
    /\ psopc = "eval"
    /\ evals = [n |-> 0, low |-> Infinity, at |-> {}]

\* NRuns calls of run() are about to start against the same out_base.
InitRuns ==
    /\ NotStarted
    /\ TwinIdle /\ GeoPending /\ PsoIdle
    /\ dirs \in SUBSET InitNames
    /\ proc = [p \in Procs |-> [pc |-> "start", rid |-> <<>>]]
    /\ logs = {}

\* run() reaches line 156 with any program, state strings and links.
InitGeo ==
    /\ NotStarted
    /\ TwinIdle /\ RunsIdle /\ PsoIdle
    /\ nphases \in {PhasesNeeded - 1, PhasesNeeded}
    /\ stA \in Strings
    /\ stB \in Strings
    /\ links \in LinkLists
    /\ geom = [Raised EXCEPT !.status = "pending"]

\* ------------------------------------------------------------------- Next
\* while t < end: one iteration with samples drawn from Q.
Step(Q, end, observe) ==
    /\ t < end
    /\ \E a \in Q, b \in Q :
        LET s == LoopBody(Engine, t, a, b)
        IN  /\ qA' = a
            /\ qB' = b
            /\ stage' = s.stage
            /\ cur_dir' = s.cur_dir
            /\ stage_end' = s.stage_end
            /\ last_green_start' = s.last_green_start
            /\ last_switch_like' = s.last_switch_like
            /\ phase' = s.phase
            /\ g' = s.g
            /\ rows' = s.rows
            /\ cmds' = s.cmds
            /\ denied' = IF observe
                         THEN [A |-> Waited(s, "A", a), B |-> Waited(s, "B", b)]
                         ELSE denied
    /\ t' = t + 1
    /\ UNCHANGED knobs

Tick ==
    /\ Step(QVals, End, FALSE)
    /\ UNCHANGED <<twin, geoVars, runVars, psoVars>>

TickKnobs ==
    /\ Step(QVals, EndKnobs, FALSE)
    /\ UNCHANGED <<twin, geoVars, runVars, psoVars>>

TickQueued ==
    /\ Step(QStanding, EndLong, TRUE)
    /\ UNCHANGED <<twin, geoVars, runVars, psoVars>>

\* Lines 156-161 of run(): the geometry is resolved, or run() raises.
Setup ==
    /\ geom.status = "pending"
    /\ geom' = Resolve(nphases, stA, stB, links)
    /\ UNCHANGED <<nphases, stA, stB, links, ctlVars, twin, runVars, psoVars>>

\* The first instance runs a tick once the second has caught up.
TickPair ==
    /\ twin.t = t
    /\ Step(QPair, End, FALSE)
    /\ UNCHANGED <<twin, geoVars, runVars, psoVars>>

\* The second instance runs its next tick on the samples the first was given
\* for that tick.
TwinTick ==
    /\ twin.t < t
    /\ LET e == [twin EXCEPT !.rows = <<>>, !.cmds = <<>>]
           s == LoopBody(e, twin.t, qA, qB)
       IN  twin' = [s EXCEPT !.t = twin.t + 1]
    /\ UNCHANGED <<ctlVars, geoVars, runVars, psoVars>>

\* Two instances fed the same samples, each at its own pace.
SpecPair == InitPair /\ [][TickPair \/ TwinTick]_vars

\* Lines 405-434: particle pi is evaluated; personal and global best follow.
Evaluate ==
    /\ psopc = "eval"
    /\ \E score \in Scores :
          LET pt == swarm[pi + 1]
              gb == UpdateGlobal([pos |-> global_best_pos,
                                  score |-> global_best_score], pt.pos, score)
          IN  /\ swarm' = [swarm EXCEPT ![pi + 1] = UpdatePersonal(pt, score)]
              /\ global_best_pos' = gb.pos
              /\ global_best_score' = gb.score
              /\ evals' = Seen(evals, pt.pos, score)
    /\ IF pi + 1 < NParticles
       THEN pi' = pi + 1 /\ psopc' = "eval"
       ELSE pi' = 0 /\ psopc' = "update"
    /\ UNCHANGED <<it, ctlVars, twin, geoVars, runVars>>

\* Lines 437-450: particle pi is moved, both dimensions.
Move ==
    /\ psopc = "update"
    /\ \E r \in Draws :
          LET pt == swarm[pi + 1]
              mA == MoveDim(pt.pos[1], pt.vel[1], pt.best_pos[1],
                            global_best_pos[1], r[1], r[2])
              mB == MoveDim(pt.pos[2], pt.vel[2], pt.best_pos[2],
                            global_best_pos[2], r[3], r[4])
          IN  swarm' = [swarm EXCEPT ![pi + 1].pos = <<mA.pos, mB.pos>>,
                                     ![pi + 1].vel = <<mA.vel, mB.vel>>]
    /\ IF pi + 1 < NParticles
       THEN pi' = pi + 1 /\ psopc' = "update" /\ it' = it
       ELSE /\ pi' = 0
            /\ it' = it + 1
            /\ psopc' = IF it + 1 < NIters THEN "eval" ELSE "done"
    /\ UNCHANGED <<global_best_pos, global_best_score, evals>>
    /\ UNCHANGED <<ctlVars, twin, geoVars, runVars>>

\* The particle-swarm search, with the scores left open.
SpecPso == InitPso /\ [][Evaluate \/ Move]_vars

\* rid = next_run_id(base)
NextRunId(p) ==
    /\ proc[p].pc = "start"
    /\ proc' = [proc EXCEPT ![p] = [pc |-> "named", rid |-> next_run_id(dirs)]]
    /\ UNCHANGED <<dirs, logs>>

\* ensure_dir(run_dir): mkdir(parents=True, exist_ok=True)
MakeRunDir(p) ==
    /\ proc[p].pc = "named"
    /\ dirs' = dirs \cup {proc[p].rid}
    /\ proc' = [proc EXCEPT ![p].pc = "made"]
    /\ UNCHANGED logs

\* open(log_path, "w") in run_dir
OpenLog(p) ==
    /\ proc[p].pc = "made"
    /\ logs' = logs \cup {<<proc[p].rid, p>>}
    /\ proc' = [proc EXCEPT ![p].pc = "logging"]
    /\ UNCHANGED dirs

RunStep ==
    /\ \E p \in Procs : NextRunId(p) \/ MakeRunDir(p) \/ OpenLog(p)
    /\ UNCHANGED <<ctlVars, twin, geoVars, psoVars>>

\* Concurrent calls of run() up to the opening of their decision logs.
SpecRuns == InitRuns /\ [][RunStep]_vars

\* The geometry resolution on its own, for every input of InitGeo.
SpecGeo == InitGeo /\ [][Setup]_vars

Next == Tick

Spec == Init /\ [][Next]_vars

\* Short runs under every choice of the policy knobs.
SpecKnobs == InitKnobs /\ [][TickKnobs]_vars

\* Runs in which both directions always have a standing queue.
SpecQueued == InitQueued /\ [][TickQueued]_vars

\* The planner applied to any queue pair and direction: g = green_plan_for_dir.
Plan ==
    /\ \E a \in PlanQ, b \in PlanQ, d \in {"A", "B"} :
          /\ qA' = a
          /\ qB' = b
          /\ cur_dir' = d
          /\ g' = green_plan_for_dir(d, a, b)
    /\ UNCHANGED <<knobs, t, stage, stage_end, last_green_start,
                   last_switch_like, phase, rows, cmds, denied>>
    /\ UNCHANGED <<twin, geoVars, runVars, psoVars>>

InitPlan == Startup(Configured, PlanQ) /\ LoopOnly

\* The green-duration planner on its own, over every queue pair of PlanQ.
SpecPlan == InitPlan /\ [][Plan]_vars

\* Runs with the fairness ceiling lowered to the minimum green.
SpecFair == InitFair /\ [][Tick]_vars

TypeOK ==
    /\ stage \in {"GREEN", "YELLOW", "ALLRED"}
    /\ cur_dir \in {"A", "B"}
    /\ t >= Begin
    /\ qA \in QVals /\ qB \in QVals
    /\ phase \in 0..5
    /\ Len(cmds) <= 2 /\ Len(rows) <= 3

\* ------------------------------------------------- reading the last tick
\* The last tick wrote a row with this action tag.
HasRow(action) == \E i \in 1..Len(rows) : rows[i].action = action

\* The last tick wrote a row with this action tag and this rationale.
HasNote(action, note) ==
    \E i \in 1..Len(rows) : rows[i].action = action /\ rows[i].note = note

TimerFired ==
    HasRow("ENTER_YELLOW") \/ HasRow("ENTER_ALLRED") \/ HasRow("ENTER_GREEN")

EarlyFired == HasRow("EARLY_SWITCH")

\* Number of stage transitions the last tick logged.
NTransitions == Cardinality({i \in 1..Len(rows) : rows[i].action # "SAMPLE"})

\* Queue of the serving direction and of the other one, as last sampled.
ThisQ == IF cur_dir = "A" THEN qA ELSE qB

OtherQ == IF cur_dir = "A" THEN qB ELSE qA

\* The tick about to run finds the stage GREEN and its timer not yet due.
GreenNoTimer == stage = "GREEN" /\ t < stage_end

\* ------------------------------------------------------------------ claims

\* C1: with the configured constants every tick applies at most one stage
\* transition: it logs at most one transition row and issues at most one
\* command, and never logs both a timer transition and an EARLY_SWITCH.
C1_AtMostOneTransition ==
    /\ NTransitions <= 1
    /\ Len(cmds) <= 1
    /\ ~(TimerFired /\ EarlyFired)

\* C1 witness: a tick entered GREEN by timer while the other direction has
\* the larger queue, so the early-switch block ran on a fresh GREEN.
C1_Witness ==
    /\ HasRow("ENTER_GREEN")
    /\ stage = "GREEN"
    /\ OtherQ > ThisQ

\* C2: for every choice of the policy knobs, a tick that applied
\* ALLRED -> GREEN (ENTER_GREEN) never also applies an EARLY_SWITCH.
C2_NoEarlySwitchAfterEnterGreen == ~(HasRow("ENTER_GREEN") /\ HasRow("EARLY_SWITCH"))

\* C3: at every ALLRED -> GREEN transition the direction chosen never has
\* queue 0 while the other direction's queue is positive.
C3_NeverServeEmpty ==
    \A i \in 1..Len(rows) :
        rows[i].action = "ENTER_GREEN" =>
            LET thisQ == IF rows[i].dir = "A" THEN rows[i].qA ELSE rows[i].qB
                otherQ == IF rows[i].dir = "A" THEN rows[i].qB ELSE rows[i].qA
            IN  ~(thisQ = 0 /\ otherQ > 0)

\* C3 witness: an ALLRED -> GREEN transition with one queue empty and the
\* other positive but inside the hysteresis band.
C3_Witness ==
    /\ HasRow("ENTER_GREEN")
    /\ ThisQ > 0 /\ OtherQ = 0
    /\ ThisQ <= knobs.HYSTERESIS

\* C4: at every ALLRED -> GREEN transition where |qA - qB| <= HYSTERESIS and
\* neither queue is zero, the serving direction stays the direction of the
\* previous GREEN stage.
C4_HysteresisKeepsDirection ==
    [][(stage = "ALLRED" /\ t >= stage_end
        /\ qA' > 0 /\ qB' > 0 /\ Abs(qA' - qB') <= knobs.HYSTERESIS)
       => (stage' = "GREEN" /\ cur_dir' = cur_dir)]_vars

\* C4 witness: GREEN was entered for the direction with the smaller queue,
\* both queues positive and within the band.
C4_Witness ==
    /\ HasRow("ENTER_GREEN")
    /\ ThisQ > 0
    /\ OtherQ > ThisQ
    /\ OtherQ - ThisQ <= knobs.HYSTERESIS

\* C5: every green duration commanded (at startup and at every
\* ALLRED -> GREEN transition) is at least the minimum green.
C5_GreenAtLeastMinimum ==
    /\ \A i \in 1..Len(cmds) :
          cmds[i][1] \in {PH_A_GREEN, PH_B_GREEN} => cmds[i][2] >= knobs.MIN_GREEN_SN
    /\ g >= knobs.MIN_GREEN_SN
    /\ (stage = "GREEN" => stage_end - last_green_start >= knobs.MIN_GREEN_SN)

\* C5 witness: an ALLRED -> GREEN transition whose tier is below the minimum
\* green, so the floor decides the duration.
C5_Witness ==
    /\ HasRow("ENTER_GREEN")
    /\ choose_green_by_diff(Abs(qA - qB)) < knobs.MIN_GREEN_SN
    /\ cmds = <<<<GreenPhase(cur_dir), knobs.MIN_GREEN_SN>>>>

\* C6: in a GREEN stage past its minimum green, with the other direction's
\* queue positive, an EARLY_SWITCH is emitted no later than FAIRNESS_SN ticks
\* after the last switch request.
C6_EarlySwitchWithinFairness ==
    [][(stage = "GREEN"
        /\ t - last_green_start >= knobs.MIN_GREEN_SN
        /\ t - last_switch_like >= knobs.FAIRNESS_SN
        /\ (IF cur_dir = "A" THEN qB' ELSE qA') > 0)
       => EarlyFired']_vars

\* C7: a direction whose queue remains positive is granted GREEN within the
\* fairness ceiling plus the clearance stages.
C7_NoStarvation ==
    \A d \in {"A", "B"} : denied[d] <= FAIRNESS_SN + YELLOW_SN + ALLRED_SN

FairnessNeverFires == ~HasNote("EARLY_SWITCH", "fairness")

\* C9: empty-side release. On a tick that finds GREEN with the timer not
\* due, the serving queue 0, the other queue positive and the green at least
\* EMPTY_MIN_SN old, the engine moves to YELLOW of the same direction and
\* logs EARLY_SWITCH with the "empty" rationale.
C9_EmptyRelease ==
    [][(GreenNoTimer
        /\ (IF cur_dir = "A" THEN qA' ELSE qB') = 0
        /\ (IF cur_dir = "A" THEN qB' ELSE qA') > 0
        /\ t - last_green_start >= knobs.EMPTY_MIN_SN)
       => (/\ stage' = "YELLOW"
           /\ cur_dir' = cur_dir
           /\ phase' = YellowPhase(cur_dir)
           /\ stage_end' = t + YELLOW_SN
           /\ cmds' = <<<<YellowPhase(cur_dir), YELLOW_SN>>>>
           /\ HasNote("EARLY_SWITCH", "empty")')]_vars

\* C9 witness: an empty-side release has just happened.
C9_Witness ==
    /\ HasNote("EARLY_SWITCH", "empty")
    /\ stage = "YELLOW"
    /\ ThisQ = 0 /\ OtherQ > 0
    /\ ~TimerFired

\* C10: advantage switch. On a tick that finds GREEN with the timer not due,
\* the empty-release rule not applicable, the green at least MIN_GREEN_SN old
\* and (other queue - serving queue) >= SWITCH_DELTA, the engine moves to
\* YELLOW and logs EARLY_SWITCH with the "other_better" rationale.
C10_AdvantageSwitch ==
    [][LET thisQ == IF cur_dir = "A" THEN qA' ELSE qB'
           otherQ == IF cur_dir = "A" THEN qB' ELSE qA'
           green_age == t - last_green_start
       IN  (GreenNoTimer
            /\ ~(thisQ = 0 /\ otherQ > 0 /\ green_age >= knobs.EMPTY_MIN_SN)
            /\ green_age >= knobs.MIN_GREEN_SN
            /\ otherQ - thisQ >= knobs.SWITCH_DELTA)
           => (/\ stage' = "YELLOW"
               /\ cur_dir' = cur_dir
               /\ stage_end' = t + YELLOW_SN
               /\ cmds' = <<<<YellowPhase(cur_dir), YELLOW_SN>>>>
               /\ HasNote("EARLY_SWITCH", "other_better")')]_vars

\* C10 witness: an advantage switch has just happened with the advantage
\* exactly at the threshold.
C10_Witness ==
    /\ HasNote("EARLY_SWITCH", "other_better")
    /\ stage = "YELLOW"
    /\ OtherQ - ThisQ = knobs.SWITCH_DELTA
    /\ ~TimerFired

\* C11: early-termination priority. When the conditions of one or several
\* early-termination rules hold on a tick that finds GREEN with the timer not
\* due, exactly one EARLY_SWITCH row is written, its rationale is that of the
\* first matching rule in the order empty, other_better, fairness, the stage
\* becomes YELLOW for YELLOW_SN ticks and last_switch_like is the tick.
C11_EarlyPriority ==
    [][LET thisQ == IF cur_dir = "A" THEN qA' ELSE qB'
           otherQ == IF cur_dir = "A" THEN qB' ELSE qA'
           green_age == t - last_green_start
           other_age == t - last_switch_like
           E == thisQ = 0 /\ otherQ > 0 /\ green_age >= knobs.EMPTY_MIN_SN
           A == green_age >= knobs.MIN_GREEN_SN
                /\ otherQ - thisQ >= knobs.SWITCH_DELTA
           F == other_age >= knobs.FAIRNESS_SN /\ otherQ > 0
                /\ green_age >= knobs.MIN_GREEN_SN
           first == IF E THEN "empty" ELSE IF A THEN "other_better" ELSE "fairness"
       IN  (GreenNoTimer /\ (E \/ A \/ F))
           => (/\ Cardinality({i \in 1..Len(rows') :
                                 rows'[i].action = "EARLY_SWITCH"}) = 1
               /\ \E i \in 1..Len(rows') :
                     rows'[i].action = "EARLY_SWITCH" /\ rows'[i].note = first
               /\ stage' = "YELLOW"
               /\ stage_end' = t + YELLOW_SN
               /\ last_switch_like' = t
               /\ cmds' = <<<<YellowPhase(cur_dir), YELLOW_SN>>>>)]_vars

\* C11 witness: all three rules held on the tick and the empty-side release
\* was the one logged.
C11_Witness ==
    /\ HasNote("EARLY_SWITCH", "empty")
    /\ ThisQ = 0
    /\ OtherQ >= knobs.SWITCH_DELTA
    /\ (t - 1) - last_green_start >= knobs.FAIRNESS_SN
    /\ (t - 1) - last_green_start >= knobs.MIN_GREEN_SN
    /\ last_switch_like = t - 1

\* Number of SAMPLE rows the last tick wrote.
NSamples == Cardinality({i \in 1..Len(rows) : rows[i].action = "SAMPLE"})

\* The last tick (tick t - 1) was a multiple of the sample interval.
SampleTick == t > Begin /\ (t - 1) % SAMPLE_EVERY = 0

\* C12: every tick that is a multiple of SAMPLE_EVERY writes exactly one
\* SAMPLE row, stamped with that tick, whether or not it also logged a
\* transition; no other tick writes a SAMPLE row.
C12_SampleEveryInterval ==
    /\ NSamples = (IF SampleTick THEN 1 ELSE 0)
    /\ \A i \in 1..Len(rows) : rows[i].t = t - 1

\* C12 witness: a SAMPLE row written on a tick that also logged an early
\* switch.
C12_Witness == HasRow("SAMPLE") /\ EarlyFired /\ Len(rows) = 2

\* C13: the log receives at least one row on every tick of the run.
C13_RowEveryTick == t > Begin => Len(rows) >= 1

\* C13 as amended: a tick writes a row exactly when it is a multiple of the
\* sample interval or issues a transition command; it writes one row per
\* transition plus the SAMPLE row, hence two on a sample tick with a
\* transition and none on a quiet tick in between.
C13_RowsOnSampleOrTransition ==
    t > Begin =>
        /\ (rows # <<>>) <=> (SampleTick \/ cmds # <<>>)
        /\ Len(rows) = Len(cmds) + (IF SampleTick THEN 1 ELSE 0)
        /\ (SampleTick /\ cmds # <<>> => Len(rows) >= 2)

\* C13 witness: a sample tick with a timer transition wrote two rows.
C13_Witness == SampleTick /\ TimerFired /\ Len(rows) = 2 /\ Len(cmds) = 1

\* The stage that follows a stage in the cycle, and the event of the timer
\* transition that leaves it.
NextStage(st) ==
    IF st = "GREEN" THEN "YELLOW" ELSE IF st = "YELLOW" THEN "ALLRED" ELSE "GREEN"

TimerEvent(st) ==
    IF st = "GREEN" THEN "ENTER_YELLOW"
    ELSE IF st = "YELLOW" THEN "ENTER_ALLRED" ELSE "ENTER_GREEN"

\* C14: the stage only changes along GREEN -> YELLOW -> ALLRED -> GREEN, and
\* a tick whose timer is due moves to the next stage and logs the matching
\* ENTER_* event; a tick whose timer is not due logs no timer event.
C14_StageCycle ==
    [][/\ (stage' # stage => stage' = NextStage(stage))
       /\ (t >= stage_end =>
              /\ stage' = NextStage(stage)
              /\ \E i \in 1..Len(rows') : rows'[i].action = TimerEvent(stage)
              /\ ~EarlyFired')
       /\ (t < stage_end => ~TimerFired')]_vars

\* C14 witness: the cycle was closed by a timer transition into GREEN of
\* direction B.
C14_Witness ==
    /\ HasRow("ENTER_GREEN")
    /\ stage = "GREEN"
    /\ cur_dir = "B"
    /\ t - 1 >= Begin + knobs.MIN_GREEN_SN + YELLOW_SN + ALLRED_SN

\* C15: every YELLOW lasts exactly YELLOW_SN ticks and every ALLRED exactly
\* ALLRED_SN ticks, whether the yellow was entered by timer or by early
\* switch: the deadline is set on entry, kept while the stage lasts, and the
\* stage is left on the tick equal to the deadline. Hence a GREEN starts
\* exactly YELLOW_SN + ALLRED_SN ticks after the tick that ended the
\* previous GREEN.
C15_FixedClearance ==
    [][/\ (stage = "GREEN" /\ stage' = "YELLOW" => stage_end' = t + YELLOW_SN)
       /\ (stage = "YELLOW" /\ stage' = "ALLRED" => stage_end' = t + ALLRED_SN)
       /\ (stage \in {"YELLOW", "ALLRED"} /\ stage' = stage =>
              stage_end' = stage_end /\ t < stage_end)
       /\ (stage \in {"YELLOW", "ALLRED"} /\ stage' # stage => t = stage_end)
       /\ (stage = "ALLRED" /\ stage' = "GREEN" =>
              t - (YELLOW_SN + ALLRED_SN) =
                 (IF last_switch_like # last_green_start
                  THEN last_switch_like
                  ELSE last_green_start + g))]_vars

\* C15 witness: ALLRED was entered exactly YELLOW_SN ticks after an early
\* switch.
C15_Witness ==
    /\ HasRow("ENTER_ALLRED")
    /\ stage = "ALLRED"
    /\ last_switch_like > last_green_start
    /\ t - 1 = last_switch_like + YELLOW_SN

\* C16: inside the loop a set_phase command is issued only on a tick where
\* the stage changes: a tick that keeps the stage issues no command and logs
\* no transition, a tick that changes it issues exactly one command, for the
\* phase it ends in, and logs exactly one transition event.
C16_CommandOnlyOnTransition ==
    [][/\ (stage' = stage => cmds' = <<>> /\ NTransitions' = 0)
       /\ (stage' # stage =>
              /\ Len(cmds') = 1
              /\ cmds'[1][1] = phase'
              /\ NTransitions' = 1)]_vars

\* C16 witness: an early switch issued its single yellow command.
C16_Witness ==
    /\ EarlyFired
    /\ NTransitions = 1
    /\ cmds = <<<<YellowPhase(cur_dir), YELLOW_SN>>>>
    /\ ~HasRow("SAMPLE")

\* Phase index of (direction, stage): A-green 0, A-yellow 1, A-all-red 2,
\* B-green 3, B-yellow 4, B-all-red 5.
PhaseIndex(d, st) ==
    (IF d = "A" THEN 0 ELSE 3)
    + (IF st = "GREEN" THEN 0 ELSE IF st = "YELLOW" THEN 1 ELSE 2)

\* C17: after every tick the last commanded phase index is the index of
\* (serving direction, stage), and every row of the tick records it.
C17_PhaseMatchesStage ==
    /\ phase = PhaseIndex(cur_dir, stage)
    /\ \A i \in 1..Len(cmds) : cmds[i][1] = PhaseIndex(cur_dir, stage)
    /\ \A i \in 1..Len(rows) : rows[i].phase = PhaseIndex(cur_dir, stage)

\* C17 witness: B's all-red was commanded on a sample tick.
C17_Witness ==
    /\ stage = "ALLRED" /\ cur_dir = "B"
    /\ phase = PH_B_ALLRED
    /\ Len(rows) = 2
    /\ cmds = <<<<PH_B_ALLRED, ALLRED_SN>>>>

\* Tier of a queue difference: longest from D2, middle from D1, else shortest.
TierOf(d) == IF d >= D2 THEN G3 ELSE IF d >= D1 THEN G2 ELSE G1

\* C18: at startup the engine is GREEN on the direction with the larger
\* first-sampled queue, ties (also 0, 0) going to A, for the planner's
\* duration floored at the minimum green; queues (12, 0) give A for
\* max(minimum green, longest tier).
C18_Startup ==
    /\ t = Begin =>
          /\ stage = "GREEN"
          /\ (qA > qB => cur_dir = "A")
          /\ (qB > qA => cur_dir = "B")
          /\ (qA = qB => cur_dir = "A")
          /\ g = Max(knobs.MIN_GREEN_SN, TierOf(Abs(qA - qB)))
          /\ stage_end = Begin + g
          /\ last_green_start = Begin /\ last_switch_like = Begin
          /\ cmds = <<<<PhaseIndex(cur_dir, "GREEN"), g>>>>
    /\ green_plan_for_dir("A", 12, 0) = Max(knobs.MIN_GREEN_SN, G3)

\* C18 witness: startup with both queues empty.
C18_Witness == t = Begin /\ qA = 0 /\ qB = 0 /\ cur_dir = "A" /\ rows = <<>>

\* C19: at every ALLRED -> GREEN transition with |qA - qB| > HYSTERESIS the
\* chosen direction is the one with the strictly larger queue, whatever the
\* previous direction.
C19_LargerQueueOutsideBand ==
    [][(stage = "ALLRED" /\ t >= stage_end
        /\ Abs(qA' - qB') > knobs.HYSTERESIS)
       => (stage' = "GREEN"
           /\ cur_dir' = (IF qA' > qB' THEN "A" ELSE "B"))]_vars

\* C19 witness: GREEN was entered for the larger of two positive queues that
\* differ by more than the band.
C19_Witness ==
    /\ HasRow("ENTER_GREEN")
    /\ OtherQ > 0
    /\ ThisQ - OtherQ > knobs.HYSTERESIS

\* C20: for every queue pair and direction the planner returns
\* max(minimum green, tier(|serving queue - other queue|)); the result does
\* not depend on the direction served and is non-decreasing in the
\* difference.
C20_Planner ==
    [][/\ g' = Max(knobs.MIN_GREEN_SN, TierOf(Abs(qA' - qB')))
       /\ green_plan_for_dir("A", qA', qB') = green_plan_for_dir("B", qA', qB')
       /\ (Abs(qA' - qB') >= Abs(qA - qB) => g' >= g)]_vars

\* C20 witness: the planner returned the longest tier for direction B with
\* the difference exactly on the high threshold.
C20_Witness ==
    /\ cur_dir = "B"
    /\ qA - qB = D2
    /\ g = G3
    /\ stage_end # Begin + g

\* C21: every ALLRED -> GREEN transition sets last_green_start and
\* last_switch_like to the current tick and stage_end to tick + planned
\* green; every other step leaves last_green_start unchanged and changes
\* last_switch_like only through an EARLY_SWITCH (to the current tick).
C21_GreenEntryFrame ==
    [][IF stage = "ALLRED" /\ t >= stage_end
       THEN /\ last_green_start' = t
            /\ last_switch_like' = t
            /\ stage_end' = t + g'
            /\ g' = green_plan_for_dir(cur_dir', qA', qB')
       ELSE /\ last_green_start' = last_green_start
            /\ (last_switch_like' # last_switch_like
                  => /\ \E i \in 1..Len(rows') : rows'[i].action = "EARLY_SWITCH"
                     /\ last_switch_like' = t)
            /\ ((\E i \in 1..Len(rows') : rows'[i].action = "EARLY_SWITCH")
                  => last_switch_like' = t)]_vars

\* C21 witness: GREEN was entered by the last tick, after an earlier
\* green had run, and both ages restart from that tick.
C21_Witness ==
    /\ HasRow("ENTER_GREEN")
    /\ t - 1 > Begin
    /\ last_green_start = t - 1
    /\ last_switch_like = t - 1
    /\ stage_end = t - 1 + g

\* C22: the serving direction changes only in an ALLRED -> GREEN step; a
\* step that ends in YELLOW or ALLRED keeps the direction, and every row it
\* logs carries that direction.
C22_DirectionOnlyAtGreenEntry ==
    [][/\ (cur_dir' # cur_dir
             => stage = "ALLRED" /\ t >= stage_end /\ stage' = "GREEN")
       /\ (stage' \in {"YELLOW", "ALLRED"}
             => /\ cur_dir' = cur_dir
                /\ \A i \in 1..Len(rows') : rows'[i].dir = cur_dir)]_vars

\* C22 witness: the all-red stage was entered for B although A has the
\* larger queue by more than the hysteresis band.
C22_Witness ==
    /\ HasRow("ENTER_ALLRED")
    /\ stage = "ALLRED"
    /\ cur_dir = "B"
    /\ qA - qB > knobs.HYSTERESIS

\* ---------------------------------------------------- geometry claims
\* The link indices both state strings cover, and their classes as the
\* requirement words them.
Covered == 0..(Min(Len(stA), Len(stB)) - 1)

GreenUnder(st, i) == st[i + 1] \in {"G", "g"}

AOnly == {i \in Covered : GreenUnder(stA, i) /\ ~GreenUnder(stB, i)}

BOnly == {i \in Covered : GreenUnder(stB, i) /\ ~GreenUnder(stA, i)}

Shared == {i \in Covered : GreenUnder(stA, i) /\ GreenUnder(stB, i)}

NoLanes == geom.lanesA = <<>> /\ geom.lanesB = <<>> /\ geom.lanesCommon = <<>>

SeqSet(q) == {q[i] : i \in 1..Len(q)}

\* C23: an accepted resolution classifies every link index into at most one
\* of A-only, B-only and Shared, green being 'G' or 'g'; the resolution
\* fails, with no lane set produced, whenever A-only or B-only is empty.
C23_Classification ==
    /\ geom.status = "ok" =>
          /\ geom.idxA = AOnly /\ geom.idxB = BOnly /\ geom.idxCommon = Shared
          /\ geom.idxA \cap geom.idxB = {}
          /\ geom.idxA \cap geom.idxCommon = {}
          /\ geom.idxB \cap geom.idxCommon = {}
    /\ (geom.status # "pending" /\ (AOnly = {} \/ BOnly = {})) =>
          geom.status = "error" /\ NoLanes
    /\ geom.status = "error" => NoLanes

\* C23 witness: a program with enough phases and matching lengths, some link
\* green under A only and none green under B only, was refused.
C23_Witness ==
    /\ geom.status = "error"
    /\ nphases >= PhasesNeeded
    /\ Len(stA) = Len(links) /\ Len(stB) = Len(links)
    /\ AOnly # {} /\ BOnly = {} /\ Shared # {}

\* C24: the resolution fails whenever the length of the A or of the B state
\* string differs from the number of controlled links.
C24_LengthMismatchFails ==
    (geom.status # "pending"
     /\ (Len(stA) # Len(links) \/ Len(stB) # Len(links)))
        => geom.status = "error"

\* C25: for every accepted input the A and B lane sets share no lane, the
\* shared lane set shares no lane with either, and each lane list is sorted
\* without duplicates.
C25_LaneSetsDisjoint ==
    geom.status = "ok" =>
        /\ SeqSet(geom.lanesA) \cap SeqSet(geom.lanesB) = {}
        /\ SeqSet(geom.lanesCommon) \cap SeqSet(geom.lanesA) = {}
        /\ SeqSet(geom.lanesCommon) \cap SeqSet(geom.lanesB) = {}
        /\ \A q \in {geom.lanesA, geom.lanesB, geom.lanesCommon} :
              \A i \in 1..Len(q), j \in 1..Len(q) : i < j => q[i] < q[j]

\* The ordering part of C25 alone, which the code does ensure.
LaneListsSorted ==
    geom.status = "ok" =>
        \A q \in {geom.lanesA, geom.lanesB, geom.lanesCommon} :
            \A i \in 1..Len(q), j \in 1..Len(q) : i < j => q[i] < q[j]

\* A malformed policy configuration: a non-positive duration, or thresholds
\* that make a tier unreachable.
Malformed(K) ==
    \/ YELLOW_SN <= 0 \/ ALLRED_SN <= 0
    \/ G1 <= 0 \/ G2 <= 0 \/ G3 <= 0
    \/ K.MIN_GREEN_SN <= 0
    \/ D1 > D2

\* C26: under a malformed policy configuration the tick loop never executes.
C26_MalformedNeverTicks == Malformed(knobs) => t = Begin

\* C27: two runs started against the same output base obtain distinct run
\* ids and directories, so no run opens the decision log of another.
C27_DistinctRunDirs ==
    /\ \A p, q \in Procs :
          (p # q /\ proc[p].pc # "start" /\ proc[q].pc # "start")
              => proc[p].rid # proc[q].rid
    /\ \A e, f \in logs : e[1] = f[1] => e[2] = f[2]

C29_BestByScore ==
    /\ [](/\ evals.n = 0 => global_best_score = Infinity
          /\ evals.n > 0 =>
                /\ global_best_score = evals.low
                /\ global_best_pos \in evals.at
          /\ \A p \in 1..NParticles : \A d \in 1..2 :
                swarm[p].pos[d] >= Gmin /\ swarm[p].pos[d] <= Gmax)
    /\ [][global_best_score' <= global_best_score]_vars

\* C29 witness: the search is over, some particle never scored as low as
\* the best, and a particle has moved away from its best position while
\* another sits on the edge of the range.
C29_Witness ==
    /\ psopc = "done"
    /\ evals.n = NParticles * NIters
    /\ \E p \in 1..NParticles : swarm[p].best_score > global_best_score
    /\ \E p \in 1..NParticles : swarm[p].pos # swarm[p].best_pos
    /\ \E p \in 1..NParticles : \E d \in 1..2 : swarm[p].pos[d] \in {Gmin, Gmax}

\* C30: whenever the stage is GREEN, at the initial green and after any
\* sequence of ticks, last_switch_like equals last_green_start, so the
\* fairness age of an early-switch evaluation equals the green age.
C30_AgesCoincideInGreen ==
    stage = "GREEN" => last_switch_like = last_green_start

\* C30 witness: a GREEN entered by the timer after an earlier green ended
\* with an early switch, part-way through its time.
C30_Witness ==
    /\ stage = "GREEN"
    /\ last_switch_like = last_green_start
    /\ last_green_start > Begin
    /\ last_green_start < Begin + knobs.MIN_GREEN_SN + knobs.MIN_GREEN_SN
    /\ t > last_green_start + 1

\* ------------------------------------------------------- timing claims
\* C31: at the end of every tick t the stage deadline is greater than t; a
\* timer transition fires exactly on the tick equal to the deadline, never
\* later; and whenever the early-termination rules are evaluated the elapsed
\* green is less than the planned green of the current GREEN stage.
C31_DeadlineAhead ==
    [][/\ stage_end >= t
       /\ stage_end' > t
       /\ ((\E i \in 1..Len(rows') :
               rows'[i].action \in {"ENTER_YELLOW", "ENTER_ALLRED", "ENTER_GREEN"})
             <=> t = stage_end)
       /\ (((stage = "GREEN" /\ t < stage_end)
            \/ (stage = "ALLRED" /\ t >= stage_end))
             => t - last_green_start' < g')]_vars

\* C31 witness: the timer ended a GREEN on the tick of its deadline.
C31_Witness ==
    /\ HasRow("ENTER_YELLOW")
    /\ t - 1 = last_green_start + g
    /\ stage_end = t - 1 + YELLOW_SN

C33_LongGreenForLargerQueue ==
    ((t = Begin \/ HasRow("ENTER_GREEN")) /\ g > knobs.MIN_GREEN_SN)
        => ThisQ - OtherQ >= D1

\* C33 witness: GREEN was entered for a direction kept by hysteresis with
\* the smaller queue, and it received the minimum green.
C33_Witness ==
    /\ HasRow("ENTER_GREEN")
    /\ ThisQ > 0 /\ ThisQ < OtherQ
    /\ g = knobs.MIN_GREEN_SN

====
